---- MODULE Spec2Model ----
(***************************************************************************)
(* A model of the ILI9341 display driver (src/src/lib.rs).                 *)
(*                                                                         *)
(* The handle owns a bus and three output pins.  Every call into a pin or  *)
(* the bus is recorded as one event of `wire`; a call can fail, and the     *)
(* `?` operator of the source then returns from the operation at once.     *)
(* The private helpers (command, write_raw, write_iter, set_window) and    *)
(* the public operations built from them are operators on a transport      *)
(* context; each action below is one whole call of an operation, except    *)
(* Drawing::draw, which is one action per item pulled from its iterator.   *)
(***************************************************************************)
EXTENDS Integers, Sequences, FiniteSets, TLC

VARIABLES
    pc,        \* "start" | "idle" | "draw" | "returned" | "panicked" | "failed"
    width,     \* Ili9341.width
    height,    \* Ili9341.height
    cs,        \* level the chip-select pin was last set to (2: never set)
    dc,        \* level the data/command-select pin was last set to
    reset,     \* level the reset pin was last set to
    op,        \* the operation in progress or last finished, with its inputs
    wire,      \* the pin, bus and delay calls of that operation, in order
    res,       \* its result
    fuel,      \* hardware calls left before the injected failure (0: none)
    pixels,    \* draw: the items of item_pixels
    k,         \* draw: how many of them the loop has pulled
    dwidth,    \* draw: local `width`
    dheight,   \* draw: local `height`
    row,       \* draw: local `row`
    i,         \* draw: local `i`
    lasty,     \* draw: local `lasty`
    startx,    \* draw: local `startx`
    endx,      \* draw: local `endx`
    calls,     \* draw: the draw_raw calls made so far, with their arguments
    again,     \* draw: what the previous draw emitted, when it was given the same input
    chipw      \* the width paired with the last MemoryAccessControl byte the
               \* chip received (0: none yet)

vars == <<pc, width, height, cs, dc, reset, op, wire, res, fuel, pixels, k,
          dwidth, dheight, row, i, lasty, startx, endx, calls, again, chipw>>

handle == <<width, height>>
locals == <<pixels, k, dwidth, dheight, row, i, lasty, startx, endx, calls, again>>

----------------------------------------------------------------------------
(* Program constants *)

WIDTH == 240
HEIGHT == 320
BUF_SIZE == 64

SoftwareReset == 1             \* 0x01
PowerControlA == 203           \* 0xcb
PowerControlB == 207           \* 0xcf
DriverTimingControlA == 232    \* 0xe8
DriverTimingControlB == 234    \* 0xea
PowerOnSequenceControl == 237  \* 0xed
PumpRatioControl == 247        \* 0xf7
PowerControl1 == 192           \* 0xc0
PowerControl2 == 193           \* 0xc1
VCOMControl1 == 197            \* 0xc5
VCOMControl2 == 199            \* 0xc7
MemoryAccessControl == 54      \* 0x36
PixelFormatSet == 58           \* 0x3a
FrameControlNormal == 177      \* 0xb1
DisplayFunctionControl == 182  \* 0xb6
Enable3G == 242                \* 0xf2
GammaSet == 38                 \* 0x26
PositiveGammaCorrection == 224 \* 0xe0
NegativeGammaCorrection == 225 \* 0xe1
SleepOut == 17                 \* 0x11
DisplayOn == 41                \* 0x29
ColumnAddressSet == 42         \* 0x2a
PageAddressSet == 43           \* 0x2b
MemoryWrite == 44              \* 0x2c

Orientations == {"Portrait", "PortraitFlipped", "Landscape", "LandscapeFlipped"}

----------------------------------------------------------------------------
(* Integer conversions of the source, at their widths *)

\* `v as u8`
AsU8(v) == v % 256

\* `v as u16` of an i32
AsU16(v) == v % 65536

\* `v >> 8` of a u16
Shr8(v) == v \div 256

\* `v & 0xff`
And255(v) == v % 256

\* (mutant) the low byte first
to_le_bytes(v) == <<v % 256, Shr8(v) % 256>>

\* u16::to_be_bytes
to_be_bytes(v) == <<Shr8(v) % 256, v % 256>>

----------------------------------------------------------------------------------------------------------------------------------------------
(* The transport: pins, bus and delay, with one injected failure.          *)
(* A helper of the driver is the sequence of calls it makes on the pins,   *)
(* the bus and the delay, in source order.  A context t is                 *)
(* [log, fuel, err, res]: the calls made so far, the number of hardware    *)
(* calls left before the failing one (0: none fails), the error value the  *)
(* failing call reports, and the result so far.  Exec makes the calls of a *)
(* helper up to the failing one and returns its error: that is the         *)
(* `.map_err(..)?` on every pin and bus call.  A delay cannot fail.        *)

OkRes == [tag |-> "Ok", e |-> "-"]

Event(kind, v, bytes) == [k |-> kind, v |-> v, bytes |-> bytes, ok |-> TRUE]

Ctx(log, f, e) == [log |-> log, fuel |-> f, err |-> e, res |-> OkRes]

\* pin.set_low() / pin.set_high()
set_low(pin) == Event(pin, 0, <<>>)
set_high(pin) == Event(pin, 1, <<>>)

\* self.spi.write(bytes); kind is "cmd" for the write of an opcode and "data"
\* for any other write
spi_write(kind, bytes) == Event(kind, 0, bytes)

\* delay.delay_ms(ms)
delay_ms(ms) == Event("delay", ms, <<>>)

\* (mutant) every failure is reported as a bus error
map_err_all_spi(ev) == "Spi"

\* map_err(Error::OutputPin) on a pin call, map_err(Error::Spi) on a bus write
map_err(ev) == IF ev.k \in {"cmd", "data"} THEN "Spi" ELSE "OutputPin"

IsHw(ev) == ev.k # "delay"

HwCount(steps, n) == Cardinality({m \in 1..n : IsHw(steps[m])})

\* (mutant) the calls after the failing one are made all the same
Exec_no_abort(t, steps) ==
    IF t.res # OkRes THEN t
    ELSE LET hw == HwCount(steps, Len(steps))
         IN  IF t.fuel = 0 \/ t.fuel > hw
             THEN [t EXCEPT !.log = @ \o steps,
                            !.fuel = IF @ = 0 THEN 0 ELSE @ - hw]
             ELSE LET m == CHOOSE n \in 1..Len(steps) :
                               IsHw(steps[n]) /\ HwCount(steps, n) = t.fuel
                  IN  [t EXCEPT !.log = @ \o SubSeq(steps, 1, m - 1)
                                          \o <<[steps[m] EXCEPT !.ok = FALSE]>>
                                          \o SubSeq(steps, m + 1, Len(steps)),
                                !.fuel = 0,
                                !.res = [tag |-> map_err(steps[m]), e |-> t.err]]

Exec(t, steps) ==
    IF t.res # OkRes THEN t
    ELSE LET hw == HwCount(steps, Len(steps))
         IN  IF t.fuel = 0 \/ t.fuel > hw
             THEN [t EXCEPT !.log = @ \o steps,
                            !.fuel = IF @ = 0 THEN 0 ELSE @ - hw]
             ELSE LET m == CHOOSE n \in 1..Len(steps) :
                               IsHw(steps[n]) /\ HwCount(steps, n) = t.fuel
                  IN  [t EXCEPT !.log = @ \o SubSeq(steps, 1, m - 1)
                                          \o <<[steps[m] EXCEPT !.ok = FALSE]>>,
                                !.fuel = 0,
                                !.res = [tag |-> map_err(steps[m]), e |-> t.err]]

----------------------------------------------------------------------------
(* The private helpers and the operations built from them *)

\* (mutant) nothing is written when there are no arguments
command_skip_empty(cmd, args) ==
    IF args = <<>>
    THEN << set_low("cs"), set_low("dc"), spi_write("cmd", <<AsU8(cmd)>>),
            set_high("dc"), set_high("cs") >>
    ELSE << set_low("cs"), set_low("dc"), spi_write("cmd", <<AsU8(cmd)>>),
            set_high("dc"), spi_write("data", args), set_high("cs") >>

command(cmd, args) ==
    << set_low("cs"),
       set_low("dc"),
       spi_write("cmd", <<AsU8(cmd)>>),
       set_high("dc"),
       spi_write("data", args),
       set_high("cs") >>

\* (mutant) data/command-select is left low for the pixel data
write_iter_dc_low(data) ==
    << set_low("cs"),
       set_low("dc"),
       spi_write("cmd", <<AsU8(MemoryWrite)>>) >>
    \o [n \in 1..Len(data) |->
           spi_write("data", <<AsU8(Shr8(data[n])), AsU8(And255(data[n]))>>)]
    \o << set_high("cs") >>

\* (mutant) the low byte of each colour is sent first
write_iter_le(data) ==
    << set_low("cs"),
       set_low("dc"),
       spi_write("cmd", <<AsU8(MemoryWrite)>>),
       set_high("dc") >>
    \o [n \in 1..Len(data) |->
           spi_write("data", <<AsU8(And255(data[n])), AsU8(Shr8(data[n]))>>)]
    \o << set_high("cs") >>

write_iter(data) ==
    << set_low("cs"),
       set_low("dc"),
       spi_write("cmd", <<AsU8(MemoryWrite)>>),
       set_high("dc") >>
    \o [n \in 1..Len(data) |->
           spi_write("data", <<AsU8(Shr8(data[n])), AsU8(And255(data[n]))>>)]
    \o << set_high("cs") >>

write_raw(data) ==
    << set_low("cs"),
       set_low("dc"),
       spi_write("cmd", <<AsU8(MemoryWrite)>>),
       set_high("dc"),
       spi_write("data", data),
       set_high("cs") >>

\* (mutant) the low byte of each coordinate is sent first
set_window_le(x0, y0, x1, y1) ==
    command(ColumnAddressSet,
            <<AsU8(And255(x0)), AsU8(Shr8(x0)), AsU8(And255(x1)), AsU8(Shr8(x1))>>)
    \o command(PageAddressSet,
               <<AsU8(And255(y0)), AsU8(Shr8(y0)), AsU8(And255(y1)), AsU8(Shr8(y1))>>)

set_window(x0, y0, x1, y1) ==
    command(ColumnAddressSet,
            <<AsU8(Shr8(x0)), AsU8(And255(x0)), AsU8(Shr8(x1)), AsU8(And255(x1))>>)
    \o command(PageAddressSet,
               <<AsU8(Shr8(y0)), AsU8(And255(y0)), AsU8(Shr8(y1)), AsU8(And255(y1))>>)

\* (mutant) the window is not set
draw_iter_no_window(x0, y0, x1, y1, data) == write_iter(data)

draw_iter(x0, y0, x1, y1, data) == set_window(x0, y0, x1, y1) \o write_iter(data)

\* (mutant) only whole pixels of the buffer are sent
draw_raw_whole_pixels(x0, y0, x1, y1, data) ==
    set_window(x0, y0, x1, y1) \o write_raw(SubSeq(data, 1, 2 * (Len(data) \div 2)))

draw_raw(x0, y0, x1, y1, data) == set_window(x0, y0, x1, y1) \o write_raw(data)

hard_reset ==
    << set_high("reset"), delay_ms(200),
       set_low("reset"), delay_ms(200),
       set_high("reset"), delay_ms(200) >>

\* The configuration commands of new(), between the software reset and sleep-out
InitScript == <<
    <<PowerControlA, <<57, 44, 0, 52, 2>>>>,
    <<PowerControlB, <<0, 193, 48>>>>,
    <<DriverTimingControlA, <<133, 0, 120>>>>,
    <<DriverTimingControlB, <<0, 0>>>>,
    <<PowerOnSequenceControl, <<100, 3, 18, 129>>>>,
    <<PumpRatioControl, <<32>>>>,
    <<PowerControl1, <<35>>>>,
    <<PowerControl2, <<16>>>>,
    <<VCOMControl1, <<62, 40>>>>,
    <<VCOMControl2, <<134>>>>,
    <<MemoryAccessControl, <<72>>>>,
    <<PixelFormatSet, <<85>>>>,
    <<FrameControlNormal, <<0, 24>>>>,
    <<DisplayFunctionControl, <<8, 130, 39>>>>,
    <<Enable3G, <<0>>>>,
    <<GammaSet, <<1>>>>,
    <<PositiveGammaCorrection,
      <<15, 49, 43, 12, 14, 8, 78, 241, 55, 7, 16, 3, 14, 9, 0>>>>,
    <<NegativeGammaCorrection,
      <<0, 14, 20, 3, 17, 7, 49, 193, 72, 8, 15, 12, 49, 54, 15>>>> >>

RECURSIVE run_script(_)
run_script(script) ==
    IF script = <<>> THEN <<>>
    ELSE command(Head(script)[1], Head(script)[2]) \o run_script(Tail(script))

\* (mutant) the display is switched on before it leaves sleep
new_display_on_first ==
    hard_reset
    \o command(SoftwareReset, <<>>) \o <<delay_ms(200)>>
    \o run_script(InitScript)
    \o command(DisplayOn, <<>>) \o <<delay_ms(120)>>
    \o command(SleepOut, <<>>)

new ==
    hard_reset
    \o command(SoftwareReset, <<>>) \o <<delay_ms(200)>>
    \o run_script(InitScript)
    \o command(SleepOut, <<>>) \o <<delay_ms(120)>>
    \o command(DisplayOn, <<>>)

\* set_orientation: the command it issues
set_orientation(byte) == command(MemoryAccessControl, <<byte>>)

\* (mutant) the colour-order bit 0x08 is missing from one register byte
orientation_byte_no_bgr(mode) ==
    CASE mode = "Portrait" -> 72
      [] mode = "Landscape" -> 40
      [] mode = "PortraitFlipped" -> 136
      [] mode = "LandscapeFlipped" -> 224

\* The register byte and the (width, height) pair of an orientation
orientation_byte(mode) ==
    CASE mode = "Portrait" -> 72            \* 0x40 | 0x08
      [] mode = "Landscape" -> 40           \* 0x20 | 0x08
      [] mode = "PortraitFlipped" -> 136    \* 0x80 | 0x08
      [] mode = "LandscapeFlipped" -> 232   \* 0x40 | 0x80 | 0x20 | 0x08

\* (mutant) the width is not swapped
orientation_width_fixed(mode) == WIDTH

orientation_width(mode) ==
    IF mode \in {"Portrait", "PortraitFlipped"} THEN WIDTH ELSE HEIGHT

orientation_height(mode) ==
    IF mode \in {"Portrait", "PortraitFlipped"} THEN HEIGHT ELSE WIDTH

\* The level a pin was last set to by a call that succeeded, after log
pin_after(log, pin, cur) ==
    LET S == {n \in 1..Len(log) : log[n].k = pin /\ log[n].ok}
    IN  IF S = {} THEN cur ELSE log[CHOOSE n \in S : \A m \in S : m <= n].v

\* The chip has received the argument byte of a MemoryAccessControl command of log
received(log) ==
    \E n \in 2..Len(log) :
        /\ log[n].k = "data" /\ log[n].ok
        /\ \E m \in 1..(n - 1) :
             /\ log[m].k = "cmd" /\ log[m].ok /\ log[m].bytes = <<AsU8(MemoryAccessControl)>>
             /\ \A q \in (m + 1)..(n - 1) : log[q].k \notin {"cmd", "data"}

----------------------------------------------------------------------------
(* Drawing::draw: the locals, the loop body and the final flush.           *)
(* A draw state st is the locals, the transport context t, the draw_raw    *)
(* calls made so far and whether the call has panicked.                    *)

\* `v as i32` of a usize
\* (2^31 - 1 is the largest integer of the checker; the fields hold 240 or 320)
AsI32(v) == IF v > 2147483647 THEN v - 2147483647 - 2147483647 - 2 ELSE v

\* (mutant) the locals keep what the previous call left in them
draw_locals_stale ==
    [row |-> row, i |-> i, lasty |-> lasty, startx |-> startx, endx |-> endx]

\* let mut row = [0; BUF_SIZE]; let mut i = 0; lasty = 0; startx = 0; endx = 0
draw_locals ==
    [row |-> [j \in 1..BUF_SIZE |-> 0], i |-> 0, lasty |-> 0, startx |-> 0, endx |-> 0]

\* (mutant) the right edge is taken for a column of the screen
on_screen_inclusive(p, w, h) == p.x >= 0 /\ p.y >= 0 /\ p.x <= w /\ p.y < h

\* The filter closure: the pixel is on the screen
on_screen(p, w, h) == p.x >= 0 /\ p.y >= 0 /\ p.x < w /\ p.y < h

\* (mutant) the run is closed one pixel before the buffer is full
extends_run_early(st, p) ==
    st.i = 0 \/ (p.y = st.lasty /\ p.x = st.endx + 1 /\ st.i < BUF_SIZE - 3)

\* (mutant) the row of the pixel is not compared
extends_run_anyrow(st, p) ==
    st.i = 0 \/ (p.x = st.endx + 1 /\ st.i < BUF_SIZE - 1)

\* (mutant) the room left in the buffer is not tested
extends_run_unbounded(st, p) ==
    st.i = 0 \/ (p.y = st.lasty /\ p.x = st.endx + 1)

\* The test of the loop body: the pixel extends the run in the buffer
extends_run(st, p) ==
    st.i = 0 \/ (p.y = st.lasty /\ p.x = st.endx + 1 /\ st.i < BUF_SIZE - 1)

\* row[i] = *b; i += 1   (an index past the buffer panics)
push_byte(st, b) ==
    IF st.panic THEN st
    ELSE IF st.i >= BUF_SIZE THEN [st EXCEPT !.panic = TRUE]
    ELSE [st EXCEPT !.row = [@ EXCEPT ![st.i + 1] = b], !.i = @ + 1]

\* for b in RawU16::from(color).into_inner().to_be_bytes().iter() { ... }
\* followed by lasty = pos.y; endx = pos.x
push_pixel(st, p) ==
    LET s == push_byte(push_byte(st, to_be_bytes(p.c)[1]), to_be_bytes(p.c)[2])
    IN  IF s.panic THEN s ELSE [s EXCEPT !.lasty = p.y, !.endx = p.x]

\* (mutant) the result of draw_raw is dropped
flush_ignore_error(st) ==
    LET t == Exec(st.t, draw_raw(AsU16(st.startx), AsU16(st.lasty), AsU16(st.endx),
                                 AsU16(st.lasty), SubSeq(st.row, 1, st.i)))
    IN  [st EXCEPT !.t = t,
                   !.calls = Append(@, [x0 |-> AsU16(st.startx), y0 |-> AsU16(st.lasty),
                                        x1 |-> AsU16(st.endx), y1 |-> AsU16(st.lasty),
                                        data |-> SubSeq(st.row, 1, st.i)])]

\* self.draw_raw(startx as u16, lasty as u16, endx as u16, lasty as u16, &row[0..i])
\*     .expect("Failed to communicate with device")
flush(st) ==
    LET t == Exec(st.t, draw_raw(AsU16(st.startx), AsU16(st.lasty), AsU16(st.endx),
                                 AsU16(st.lasty), SubSeq(st.row, 1, st.i)))
    IN  [st EXCEPT !.t = t,
                   !.calls = Append(@, [x0 |-> AsU16(st.startx), y0 |-> AsU16(st.lasty),
                                        x1 |-> AsU16(st.endx), y1 |-> AsU16(st.lasty),
                                        data |-> SubSeq(st.row, 1, st.i)]),
                   !.panic = (t.res # OkRes)]

\* (mutant) startx is not set when a run starts
start_run_stale(st, p) == [st EXCEPT !.i = 0]

\* The start of a run: i = 0 (where the buffer is restarted) and startx = pos.x
start_run(st, p) == [st EXCEPT !.i = 0, !.startx = p.x]

\* The body of the loop over the on-screen pixels
loop_body(st, p) ==
    IF extends_run(st, p)
    THEN push_pixel(IF st.i = 0 THEN start_run(st, p) ELSE st, p)
    ELSE LET s == flush(st)
         IN  IF s.panic THEN s ELSE push_pixel(start_run(s, p), p)

\* The loop body up to the first `row[i] = *b; i += 1` of the pixel: the run is
\* flushed and restarted if need be, and the high byte of the colour is appended
first_byte(st, p) ==
    LET s == IF extends_run(st, p)
             THEN (IF st.i = 0 THEN start_run(st, p) ELSE st)
             ELSE start_run(flush(st), p)
    IN  push_byte(s, to_be_bytes(p.c)[1])

\* One item of item_pixels: filtered out, or given to the loop body
draw_item(st, p, w, h) == IF on_screen(p, w, h) THEN loop_body(st, p) ELSE st

\* After the loop: if i > 0 { self.draw_raw(...).expect(...) }
draw_finish(st) == IF st.i > 0 THEN flush(st) ELSE st

RECURSIVE draw_items(_, _, _, _)
draw_items(st, ps, w, h) ==
    IF ps = <<>> \/ st.panic THEN st
    ELSE draw_items(draw_item(st, Head(ps), w, h), Tail(ps), w, h)

\* A whole draw call on a transport that does not fail
draw(ps, w, h) ==
    LET l  == draw_locals
        s0 == [row |-> l.row, i |-> l.i, lasty |-> l.lasty, startx |-> l.startx,
               endx |-> l.endx, t |-> Ctx(<<>>, 0, "-"), calls |-> <<>>, panic |-> FALSE]
        s1 == draw_items(s0, ps, AsI32(w), AsI32(h))
    IN  IF s1.panic THEN s1 ELSE draw_finish(s1)

----------------------------------------------------------------------------
(* Bounds and input sets *)

MaxData == 2      \* longest byte buffer / colour sequence given to draw_raw / draw_iter
MaxShort == 3     \* longest pixel stream made of arbitrary pixels
MaxRun == 66      \* longest contiguous run given to draw
MaxTiny == 2      \* longest arbitrary pixel stream of the whole-driver specification
FuelDraw == 36    \* latest hardware call of a draw that is made to fail

ErrVals == {"e1", "e2"}

\* The failures injected into an operation of at most n hardware calls
Failures(n) == {<<0, "-">>} \cup ((1..n) \X ErrVals)

RECURSIVE SeqsUpTo(_, _)
SeqsUpTo(S, n) ==
    IF n = 0 THEN {<<>>}
    ELSE LET shorter == SeqsUpTo(S, n - 1)
         IN  shorter \cup {Append(q, x) : q \in {r \in shorter : Len(r) = n - 1}, x \in S}

Coords == {0, 258, 65535}
Rows == {1, 511}
ByteVals == {0, 165}
ColourVals == {4862, 63488}          \* 0x12fe, 0xf800
Buffers == SeqsUpTo(ByteVals, MaxData)
ColourSeqs == SeqsUpTo(ColourVals, MaxData)

Px(x, y, c) == [x |-> x, y |-> y, c |-> c]

\* Arbitrary pixels: on and off the screen in either orientation
PixSet == { Px(0, 0, 4862), Px(1, 0, 63488), Px(2, 0, 255), Px(5, 0, 63488),
            Px(1, 1, 255), Px(-1, 0, 4862), Px(1, -1, 255), Px(240, 0, 63488),
            Px(1, 240, 4862), Px(320, 1, 255), Px(1, 320, 63488) }

Palette == <<4862, 63488, 255, 43605>>    \* 0x12fe, 0xf800, 0x00ff, 0xaa55

\* The run (x0,y),(x0+1,y),...,(x0+n-1,y), its colours cycling through the palette
Run(x0, y, n, c0) ==
    [j \in 1..n |-> Px(x0 + j - 1, y, Palette[((c0 + j) % Len(Palette)) + 1])]

RunStarts == {-1, 0, 200}
RunStreams == { Run(x0, 7, n, c0) : x0 \in RunStarts, n \in 1..MaxRun, c0 \in {0, 1} }

\* A run that fills, nearly fills or overfills the buffer, followed by one more
\* pixel: next on the row, one further, on the next row, back at the start, off-screen
RunTails == { Run(0, 0, n, 0) \o <<q>> :
                n \in {BUF_SIZE \div 2 - 1, BUF_SIZE \div 2, BUF_SIZE \div 2 + 1},
                q \in { Px(BUF_SIZE \div 2, 0, 255), Px(BUF_SIZE \div 2 + 1, 0, 255),
                        Px(BUF_SIZE \div 2 + 1, 1, 255), Px(0, 0, 255), Px(-1, 0, 255) } }

DrawStreams == SeqsUpTo(PixSet, MaxShort) \cup RunStreams \cup RunTails

TinyPix == { Px(0, 0, 4862), Px(1, 0, 63488), Px(5, 0, 255), Px(240, 0, 4862), Px(0, -1, 255) }
TinyStreams ==
    SeqsUpTo(TinyPix, MaxTiny)
    \cup { Run(0, 0, BUF_SIZE \div 2 + 1, 0),
           <<Px(0, 0, 4862), Px(5, 0, 255), Px(1, 0, 63488)>> }

----------------------------------------------------------------------------
(* Actions *)

Running == [tag |-> "Running", e |-> "-"]

Op(name, win, data, mode, f, e) ==
    [name |-> name, win |-> win, data |-> data, mode |-> mode, f |-> f, err |-> e]

\* The effect on the pins and the record of a whole operation whose context ends as t
Finish(t) ==
    /\ wire' = t.log
    /\ res' = t.res
    /\ fuel' = t.fuel
    /\ cs' = pin_after(t.log, "cs", cs)
    /\ dc' = pin_after(t.log, "dc", dc)
    /\ reset' = pin_after(t.log, "reset", reset)

\* Ili9341::new
New(f, e) ==
    /\ pc = "start"
    /\ LET t == Exec(Ctx(<<>>, f, e), new)
       IN  /\ Finish(t)
           /\ pc' = IF t.res = OkRes THEN "returned" ELSE "failed"
           /\ chipw' = IF received(t.log) THEN WIDTH ELSE chipw
    /\ width' = WIDTH
    /\ height' = HEIGHT
    /\ op' = Op("new", <<>>, <<>>, "-", f, e)
    /\ UNCHANGED locals

\* (mutant) width and height are assigned only when the command succeeded
SetOrientation_rollback(mode, f, e) ==
    /\ pc = "idle"
    /\ LET t == Exec(Ctx(<<>>, f, e), set_orientation(orientation_byte(mode)))
       IN  /\ Finish(t)
           /\ chipw' = IF received(t.log) THEN orientation_width(mode) ELSE chipw
           /\ width' = IF t.res = OkRes THEN orientation_width(mode) ELSE width
           /\ height' = IF t.res = OkRes THEN orientation_height(mode) ELSE height
    /\ op' = Op("set_orientation", <<>>, <<>>, mode, f, e)
    /\ pc' = "returned"
    /\ UNCHANGED locals

\* Ili9341::set_orientation
SetOrientation(mode, f, e) ==
    /\ pc = "idle"
    /\ width' = orientation_width(mode)
    /\ height' = orientation_height(mode)
    /\ LET t == Exec(Ctx(<<>>, f, e), set_orientation(orientation_byte(mode)))
       IN  /\ Finish(t)
           /\ chipw' = IF received(t.log) THEN orientation_width(mode) ELSE chipw
    /\ op' = Op("set_orientation", <<>>, <<>>, mode, f, e)
    /\ pc' = "returned"
    /\ UNCHANGED locals

\* Ili9341::draw_raw
DrawRaw(x0, y0, x1, y1, data, f, e) ==
    /\ pc = "idle"
    /\ Finish(Exec(Ctx(<<>>, f, e), draw_raw(x0, y0, x1, y1, data)))
    /\ op' = Op("draw_raw", <<x0, y0, x1, y1>>, data, "-", f, e)
    /\ pc' = "returned"
    /\ UNCHANGED <<handle, chipw, locals>>

\* Ili9341::draw_iter
DrawIter(x0, y0, x1, y1, data, f, e) ==
    /\ pc = "idle"
    /\ Finish(Exec(Ctx(<<>>, f, e), draw_iter(x0, y0, x1, y1, data)))
    /\ op' = Op("draw_iter", <<x0, y0, x1, y1>>, data, "-", f, e)
    /\ pc' = "returned"
    /\ UNCHANGED <<handle, chipw, locals>>

\* The private helpers, called on their own
Command(cmd, args, f, e) ==
    /\ pc = "idle"
    /\ Finish(Exec(Ctx(<<>>, f, e), command(cmd, args)))
    /\ op' = Op("command", <<cmd>>, args, "-", f, e)
    /\ pc' = "returned"
    /\ UNCHANGED <<handle, chipw, locals>>

SetWindow(x0, y0, x1, y1, f, e) ==
    /\ pc = "idle"
    /\ Finish(Exec(Ctx(<<>>, f, e), set_window(x0, y0, x1, y1)))
    /\ op' = Op("set_window", <<x0, y0, x1, y1>>, <<>>, "-", f, e)
    /\ pc' = "returned"
    /\ UNCHANGED <<handle, chipw, locals>>

WriteRaw(data, f, e) ==
    /\ pc = "idle"
    /\ Finish(Exec(Ctx(<<>>, f, e), write_raw(data)))
    /\ op' = Op("write_raw", <<>>, data, "-", f, e)
    /\ pc' = "returned"
    /\ UNCHANGED <<handle, chipw, locals>>

WriteIter(data, f, e) ==
    /\ pc = "idle"
    /\ Finish(Exec(Ctx(<<>>, f, e), write_iter(data)))
    /\ op' = Op("write_iter", <<>>, data, "-", f, e)
    /\ pc' = "returned"
    /\ UNCHANGED <<handle, chipw, locals>>

\* Ili9341::width and Ili9341::height: the value returned is kept in op.win
Width ==
    /\ pc = "idle"
    /\ pc' = "returned"
    /\ op' = Op("width", <<width>>, <<>>, "-", 0, "-")
    /\ wire' = <<>>
    /\ res' = OkRes
    /\ fuel' = 0
    /\ UNCHANGED <<handle, chipw, cs, dc, reset, locals>>

Height ==
    /\ pc = "idle"
    /\ pc' = "returned"
    /\ op' = Op("height", <<height>>, <<>>, "-", 0, "-")
    /\ wire' = <<>>
    /\ res' = OkRes
    /\ fuel' = 0
    /\ UNCHANGED <<handle, chipw, cs, dc, reset, locals>>

\* The draw state held by the variables
DrawState ==
    [row |-> row, i |-> i, lasty |-> lasty, startx |-> startx, endx |-> endx,
     t |-> [log |-> wire, fuel |-> fuel, err |-> op.err, res |-> OkRes],
     calls |-> calls, panic |-> FALSE]

\* The variables after a step of draw that leaves the draw state s; the call
\* returns when done, and panics when s.panic
DrawTo(s, done) ==
    /\ row' = s.row
    /\ i' = s.i
    /\ lasty' = s.lasty
    /\ startx' = s.startx
    /\ endx' = s.endx
    /\ calls' = s.calls
    /\ wire' = s.t.log
    /\ fuel' = s.t.fuel
    /\ cs' = pin_after(s.t.log, "cs", cs)
    /\ dc' = pin_after(s.t.log, "dc", dc)
    /\ reset' = pin_after(s.t.log, "reset", reset)
    /\ pc' = IF s.panic THEN "panicked" ELSE IF done THEN "returned" ELSE "draw"
    /\ res' = IF s.panic THEN [tag |-> "Panic", e |-> s.t.res.tag]
              ELSE IF done THEN OkRes ELSE Running

\* Drawing::draw is entered: the locals are initialised
DrawBegin(ps, f, e) ==
    /\ pc \in {"idle", "returned"}
    /\ pc' = "draw"
    /\ op' = Op("draw", <<>>, <<>>, "-", f, e)
    /\ pixels' = ps
    /\ k' = 0
    /\ row' = draw_locals.row
    /\ i' = draw_locals.i
    /\ lasty' = draw_locals.lasty
    /\ startx' = draw_locals.startx
    /\ endx' = draw_locals.endx
    /\ dwidth' = AsI32(width)
    /\ dheight' = AsI32(height)
    /\ calls' = <<>>
    /\ wire' = <<>>
    /\ fuel' = f
    /\ res' = Running
    /\ again' = IF ps = pixels /\ AsI32(width) = dwidth /\ AsI32(height) = dheight
                THEN <<calls>> ELSE <<>>
    /\ UNCHANGED <<handle, chipw, cs, dc, reset>>

\* The loop pulls the next item of item_pixels
DrawPixel ==
    /\ pc = "draw"
    /\ k < Len(pixels)
    /\ k' = k + 1
    /\ DrawTo(draw_item(DrawState, pixels[k + 1], dwidth, dheight), FALSE)
    /\ UNCHANGED <<handle, chipw, op, pixels, dwidth, dheight, again>>

\* item_pixels is exhausted: the final flush, and draw returns
DrawEnd ==
    /\ pc = "draw"
    /\ k = Len(pixels)
    /\ DrawTo(draw_finish(DrawState), TRUE)
    /\ UNCHANGED <<handle, chipw, op, pixels, k, dwidth, dheight, again>>

-----------------------------------------------------------------------

\* The value of `row` in the model while no draw call is running
NoRow == [j \in 1..BUF_SIZE |-> 0]

\* A draw of the stream ps follows a draw that has returned
DrawAfterDraw(ps, f, e) ==
    /\ pc = "returned"
    /\ op.name = "draw"
    /\ DrawBegin(ps, f, e)

\* The record of the call that returned is dropped, with the locals of a draw
\* that returned (the caller goes on; not a step of the driver)
Forget ==
    /\ pc = "returned"
    /\ pc' = "idle"
    /\ op' = Op("none", <<>>, <<>>, "-", 0, "-")
    /\ wire' = <<>>
    /\ res' = OkRes
    /\ fuel' = 0
    /\ pixels' = <<>>
    /\ k' = 0
    /\ dwidth' = 0
    /\ dheight' = 0
    /\ row' = NoRow
    /\ i' = 0
    /\ lasty' = 0
    /\ startx' = 0
    /\ endx' = 0
    /\ calls' = <<>>
    /\ again' = <<>>
    /\ UNCHANGED <<handle, chipw, cs, dc, reset>>

----------------------------------------------------------------------------
(* Specifications *)

NoCall ==
    /\ op = Op("none", <<>>, <<>>, "-", 0, "-")
    /\ wire = <<>>
    /\ res = OkRes
    /\ fuel = 0
    /\ pixels = <<>>
    /\ k = 0
    /\ dwidth = 0
    /\ dheight = 0
    /\ row = NoRow
    /\ i = 0
    /\ lasty = 0
    /\ startx = 0
    /\ endx = 0
    /\ calls = <<>>
    /\ again = <<>>

\* Before the handle is constructed
Init ==
    /\ pc = "start"
    /\ width = 0
    /\ height = 0
    /\ cs = 2
    /\ dc = 2
    /\ reset = 2
    /\ chipw = 0
    /\ NoCall

\* A handle that new() has returned
InitIdle ==
    /\ pc = "idle"
    /\ width = WIDTH
    /\ height = HEIGHT
    /\ cs = pin_after(new, "cs", 2)
    /\ dc = pin_after(new, "dc", 2)
    /\ reset = pin_after(new, "reset", 2)
    /\ chipw = WIDTH
    /\ NoCall

\* The hardware calls of new(): 3 of the reset, 6 of each of its 21 commands
NewCalls == 3 + 6 * (Len(InitScript) + 3)

\* The public operations, each with an injected failure or none
Next ==
    \/ pc = "start" /\ \E fe \in Failures(NewCalls) : New(fe[1], fe[2])
    \/ pc = "idle" /\ \E mode \in Orientations, fe \in Failures(6) :
            SetOrientation(mode, fe[1], fe[2])
    \/ pc = "idle" /\ \E x0 \in Coords, x1 \in Coords, y0 \in Rows, y1 \in Rows,
                         data \in Buffers, fe \in Failures(18) :
            DrawRaw(x0, y0, x1, y1, data, fe[1], fe[2])
    \/ pc = "idle" /\ \E x0 \in Coords, x1 \in Coords, y0 \in Rows, y1 \in Rows,
                         data \in ColourSeqs, fe \in Failures(17 + MaxData) :
            DrawIter(x0, y0, x1, y1, data, fe[1], fe[2])
    \/ pc = "idle" /\ \E ps \in TinyStreams, fe \in Failures(FuelDraw) :
            DrawBegin(ps, fe[1], fe[2])
    \/ pc = "returned" /\ \E fe \in Failures(FuelDraw) : DrawAfterDraw(pixels, fe[1], fe[2])
    \/ DrawPixel
    \/ DrawEnd
    \/ Width
    \/ Height
    \/ Forget

Spec == Init /\ [][Next]_vars

\* Drawing::draw on a transport that does not fail, in either orientation
NextDraw ==
    \/ pc = "idle" /\ \E mode \in Orientations : SetOrientation(mode, 0, "-")
    \/ pc = "idle" /\ \E ps \in DrawStreams : DrawBegin(ps, 0, "-")
    \/ pc = "returned" /\ \E ps \in {pixels} \cup TinyStreams : DrawAfterDraw(ps, 0, "-")
    \/ DrawPixel
    \/ DrawEnd
    \/ Forget

SpecDraw == InitIdle /\ [][NextDraw]_vars

\* The private helpers, each with an injected failure or none
NextHelpers ==
    \/ pc = "idle" /\ \E cmd \in {SoftwareReset, MemoryAccessControl, NegativeGammaCorrection},
                         args \in Buffers, fe \in Failures(6) :
            Command(cmd, args, fe[1], fe[2])
    \/ pc = "idle" /\ \E x0 \in Coords, x1 \in Coords, y0 \in Coords, y1 \in Coords,
                         fe \in Failures(12) :
            SetWindow(x0, y0, x1, y1, fe[1], fe[2])
    \/ pc = "idle" /\ \E data \in Buffers, fe \in Failures(6) : WriteRaw(data, fe[1], fe[2])
    \/ pc = "idle" /\ \E data \in ColourSeqs, fe \in Failures(5 + MaxData) :
            WriteIter(data, fe[1], fe[2])
    \/ Forget

SpecHelpers == InitIdle /\ [][NextHelpers]_vars

\* Every operation of the handle, public or private, each with an injected
\* failure or none
NextOps ==
    \/ pc = "start" /\ \E fe \in Failures(NewCalls) : New(fe[1], fe[2])
    \/ pc = "idle" /\ \E mode \in Orientations, fe \in Failures(6) :
            SetOrientation(mode, fe[1], fe[2])
    \/ pc = "idle" /\ \E x0 \in Coords, x1 \in Coords, y0 \in Rows, y1 \in Rows,
                         data \in Buffers, fe \in Failures(18) :
            DrawRaw(x0, y0, x1, y1, data, fe[1], fe[2])
    \/ pc = "idle" /\ \E x0 \in Coords, x1 \in Coords, y0 \in Rows, y1 \in Rows,
                         data \in ColourSeqs, fe \in Failures(17 + MaxData) :
            DrawIter(x0, y0, x1, y1, data, fe[1], fe[2])
    \/ pc = "idle" /\ \E ps \in TinyStreams, fe \in Failures(FuelDraw) :
            DrawBegin(ps, fe[1], fe[2])
    \/ DrawPixel
    \/ DrawEnd
    \/ Width
    \/ Height
    \/ pc = "idle" /\ \E cmd \in {SoftwareReset, MemoryAccessControl, NegativeGammaCorrection},
                         args \in Buffers, fe \in Failures(6) :
            Command(cmd, args, fe[1], fe[2])
    \/ pc = "idle" /\ \E x0 \in Coords, x1 \in Coords, y0 \in Rows, y1 \in Rows,
                         fe \in Failures(12) :
            SetWindow(x0, y0, x1, y1, fe[1], fe[2])
    \/ pc = "idle" /\ \E data \in Buffers, fe \in Failures(6) : WriteRaw(data, fe[1], fe[2])
    \/ pc = "idle" /\ \E data \in ColourSeqs, fe \in Failures(5 + MaxData) :
            WriteIter(data, fe[1], fe[2])
    \/ Forget

SpecOps == Init /\ [][NextOps]_vars

----------------------------------------------------------------------------
(* The claims about Drawing::draw (checked under SpecDraw) *)

\* A draw call has returned
DrawReturned == pc = "returned" /\ op.name = "draw"

\* The pixel lies in [0,width) x [0,height) of the handle
InScreen(p) == 0 <= p.x /\ p.x < width /\ 0 <= p.y /\ p.y < height

\* The on-screen pixels of a stream, in its order
Visible(ps) == SelectSeq(ps, InScreen)

\* The stream is (x0,y),(x0+1,y),...,(x0+n-1,y), n >= 1
IsRunStream(ps) ==
    /\ Len(ps) >= 1
    /\ \A j \in 2..Len(ps) : ps[j].y = ps[1].y /\ ps[j].x = ps[1].x + j - 1

\* The colours of a stream as bytes, high byte then low byte
PayloadOf(ps) ==
    [n \in 1..(2 * Len(ps)) |->
        IF n % 2 = 1 THEN ps[(n + 1) \div 2].c \div 256 ELSE ps[n \div 2].c % 256]

\* The number of MemoryWrite opcodes on the wire
MemoryWrites == Cardinality({n \in 1..Len(wire) : wire[n].k = "cmd" /\ wire[n].bytes = <<44>>})

\* The number of pixels a draw_raw call carries, and of the calls before call c
PixelsIn(c) == Len(c.data) \div 2
RECURSIVE PixelsBefore(_)
PixelsBefore(c) == IF c <= 1 THEN 0 ELSE PixelsBefore(c - 1) + PixelsIn(calls[c - 1])

\* The call that carries the j-th on-screen pixel of the stream
CallOf(j) ==
    CHOOSE c \in 1..Len(calls) : PixelsBefore(c) < j /\ j <= PixelsBefore(c) + PixelsIn(calls[c])

\* The pixels a call writes, left to right
CallPixels(c) ==
    [j \in 1..(c.x1 - c.x0 + 1) |-> Px(c.x0 + j - 1, c.y0, c.data[2 * j - 1] * 256 + c.data[2 * j])]

RECURSIVE Expand(_)
Expand(cs_) == IF cs_ = <<>> THEN <<>> ELSE CallPixels(Head(cs_)) \o Expand(Tail(cs_))

RECURSIVE Payloads(_)
Payloads(cs_) == IF cs_ = <<>> THEN <<>> ELSE Head(cs_).data \o Payloads(Tail(cs_))

\* C1: when the whole stream given to draw is one ascending contiguous same-row
\* on-screen run of n pixels, 1 <= n <= 32, draw emits exactly one draw_raw call,
\* with window (x0, y, x0+n-1, y) and the 2n bytes of the colours, high byte then
\* low byte, in stream order.
C1_OneRunOneCall ==
    (/\ DrawReturned
     /\ IsRunStream(pixels)
     /\ Len(pixels) <= 32
     /\ \A j \in 1..Len(pixels) : InScreen(pixels[j]))
    => /\ calls = << [x0 |-> pixels[1].x, y0 |-> pixels[1].y,
                      x1 |-> pixels[1].x + Len(pixels) - 1, y1 |-> pixels[1].y,
                      data |-> PayloadOf(pixels)] >>
       /\ Len(calls[1].data) = 2 * Len(pixels)
       /\ MemoryWrites = 1

C1_Witness ==
    /\ DrawReturned
    /\ IsRunStream(pixels)
    /\ Len(pixels) = 32
    /\ \A j \in 1..Len(pixels) : InScreen(pixels[j])
    /\ Len(calls) = 1

\* C2: a contiguous same-row on-screen run of n > 32 pixels given to draw is
\* emitted as several consecutive draw_raw calls, none carrying more than 32
\* pixels (64 bytes), whose windows are adjacent on the row (each starts at the
\* previous end + 1) and cover columns x0..x0+n-1 exactly once, no pixel lost or
\* duplicated.
C2_SplitAtCapacity ==
    (/\ DrawReturned
     /\ IsRunStream(pixels)
     /\ Len(pixels) > 32
     /\ \A j \in 1..Len(pixels) : InScreen(pixels[j]))
    => /\ Len(calls) >= 2
       /\ MemoryWrites = Len(calls)
       /\ \A c \in 1..Len(calls) :
            /\ Len(calls[c].data) <= 64
            /\ Len(calls[c].data) = 2 * (calls[c].x1 - calls[c].x0 + 1)
            /\ calls[c].x0 <= calls[c].x1
            /\ calls[c].y0 = pixels[1].y
            /\ calls[c].y1 = pixels[1].y
       /\ calls[1].x0 = pixels[1].x
       /\ \A c \in 1..(Len(calls) - 1) : calls[c + 1].x0 = calls[c].x1 + 1
       /\ calls[Len(calls)].x1 = pixels[1].x + Len(pixels) - 1
       /\ Payloads(calls) = PayloadOf(pixels)

C2_Witness ==
    /\ DrawReturned
    /\ IsRunStream(pixels)
    /\ Len(pixels) = 66
    /\ \A j \in 1..Len(pixels) : InScreen(pixels[j])
    /\ Len(calls) = 3

\* C3: for two consecutive on-screen pixels p then q of the stream, q is in the
\* same emitted draw_raw call as p exactly when q.y = p.y, q.x = p.x + 1 and the
\* run holding p has fewer than 32 pixels; otherwise the run holding p is emitted
\* and q starts a new one.  (0,0) then (5,0) gives two calls of one pixel each.
C3_RunBoundaries ==
    DrawReturned =>
        LET on == Visible(pixels)
        IN  /\ PixelsBefore(Len(calls) + 1) = Len(on)
            /\ \A c \in 1..Len(calls) : PixelsIn(calls[c]) >= 1
            /\ \A j \in 1..(Len(on) - 1) :
                 (CallOf(j + 1) = CallOf(j))
                 <=> (/\ on[j + 1].y = on[j].y
                      /\ on[j + 1].x = on[j].x + 1
                      /\ j - PixelsBefore(CallOf(j)) < 32)
            /\ (pixels = <<Px(0, 0, 4862), Px(5, 0, 63488)>>
                => /\ Len(calls) = 2
                   /\ calls[1].x0 = 0 /\ calls[1].x1 = 0 /\ PixelsIn(calls[1]) = 1
                   /\ calls[2].x0 = 5 /\ calls[2].x1 = 5 /\ PixelsIn(calls[2]) = 1)

C3_Witness ==
    /\ DrawReturned
    /\ Len(calls) = 3
    /\ LET on == Visible(pixels)
       IN  /\ Len(on) = 34
           /\ CallOf(2) = CallOf(1)
           /\ on[33].y = on[32].y /\ on[33].x = on[32].x + 1 /\ CallOf(33) # CallOf(32)
           /\ on[34].y # on[33].y /\ CallOf(34) # CallOf(33)

\* C4: for every pixel stream in any order, the draw_raw calls of one draw, read in
\* emission order and within a call left to right from x0 to x1 on row y0, are
\* exactly the on-screen pixels of the input with their positions and colours, in
\* input order, each once.
C4_StreamPreserved ==
    DrawReturned =>
        /\ \A c \in 1..Len(calls) :
             /\ calls[c].y0 = calls[c].y1
             /\ calls[c].x0 <= calls[c].x1
             /\ Len(calls[c].data) = 2 * (calls[c].x1 - calls[c].x0 + 1)
        /\ Expand(calls) = Visible(pixels)

C4_Witness ==
    /\ DrawReturned
    /\ Len(pixels) = 3
    /\ Len(Visible(pixels)) = 2
    /\ pixels[3].x < pixels[1].x
    /\ pixels[3].y = pixels[1].y
    /\ Len(calls) = 2

\* C5: a pixel outside [0,width) x [0,height) of the handle produces no write and
\* has no other effect: the calls emitted for a stream are those emitted for the
\* stream without its off-screen pixels, every emitted window has
\* 0 <= x0 <= x1 < width and 0 <= y0 = y1 < height, and a stream with no on-screen
\* pixel produces no pin or bus activity.
C5_OffScreenClipped ==
    /\ DrawReturned =>
         /\ calls = draw(Visible(pixels), width, height).calls
         /\ wire = draw(Visible(pixels), width, height).t.log
         /\ \A c \in 1..Len(calls) :
              /\ 0 <= calls[c].x0 /\ calls[c].x0 <= calls[c].x1 /\ calls[c].x1 < width
              /\ 0 <= calls[c].y0 /\ calls[c].y0 = calls[c].y1 /\ calls[c].y1 < height
    /\ (op.name = "draw" /\ Visible(pixels) = <<>>) => (wire = <<>> /\ calls = <<>>)

C5_Witness ==
    /\ DrawReturned
    /\ Len(pixels) = 3
    /\ pixels[2].x = width
    /\ InScreen(pixels[1])
    /\ InScreen(pixels[3])
    /\ pixels[3].x = pixels[1].x + 1
    /\ pixels[3].y = pixels[1].y
    /\ Len(calls) = 1

\* C6: draw called twice with the same pixel stream on a handle of the same
\* width and height, the transport succeeding, emits the same sequence of
\* draw_raw calls both times (windows, payloads, order): no run-buffer state
\* survives from one draw call to the next.
C6_DrawStateless == (DrawReturned /\ again # <<>>) => calls = again[1]

C6_Witness == DrawReturned /\ again # <<>> /\ Len(calls) >= 2 /\ i > 2

----------------------------------------------------------------------------
(* The claims about the wire (checked under Spec and SpecHelpers) *)

\* A call of the operation `name` has returned
Returned(name) == pc = "returned" /\ op.name = name

\* A call on a pin or the bus that succeeded
Did(kind, v, bytes) == [k |-> kind, v |-> v, bytes |-> bytes, ok |-> TRUE]

\* One chip-select-framed command: chip-select low, data/command-select low, the
\* opcode, data/command-select high, the payload, chip-select high
Frame(opcode, payload) ==
    << Did("cs", 0, <<>>), Did("dc", 0, <<>>), Did("cmd", 0, <<opcode>>),
       Did("dc", 1, <<>>), Did("data", 0, payload), Did("cs", 1, <<>>) >>

Hi(v) == v \div 256
Lo(v) == v % 256

\* C7: a successful command(opcode, args) performs exactly these steps in this
\* order and nothing else: chip-select low, data/command-select low, one bus write
\* of the single opcode byte, data/command-select high, one bus write of args
\* as given (also when args is empty), chip-select high.
C7_CommandFraming ==
    (Returned("command") /\ res = OkRes) =>
        /\ Len(wire) = 6
        /\ wire[1] = Did("cs", 0, <<>>)
        /\ wire[2] = Did("dc", 0, <<>>)
        /\ wire[3] = Did("cmd", 0, <<op.win[1]>>)
        /\ wire[4] = Did("dc", 1, <<>>)
        /\ wire[5] = Did("data", 0, op.data)
        /\ wire[6] = Did("cs", 1, <<>>)

C7_Witness == Returned("command") /\ res = OkRes /\ op.data = <<>> /\ Len(wire) = 6

\* When call n is made, the last call on pin `pin` set it to level v
LastSet(pin, v, n) ==
    \E m \in 1..(n - 1) :
        /\ wire[m].k = pin
        /\ wire[m].v = v
        /\ wire[m].ok
        /\ \A q \in (m + 1)..(n - 1) : wire[q].k # pin

IsBusWrite(n) == wire[n].k \in {"cmd", "data"}

\* A chip-select-low period starts at a call m that sets chip-select low and
\* lasts until the next call on chip-select, or the end of the wire
PeriodStarts == {m \in 1..Len(wire) : wire[m].k = "cs" /\ wire[m].v = 0 /\ wire[m].ok}
CsCallsAfter(m) == {q \in (m + 1)..Len(wire) : wire[q].k = "cs"}
PeriodEnd(m) ==
    LET after == CsCallsAfter(m)
    IN  IF after = {} THEN Len(wire) + 1
        ELSE CHOOSE q \in after : \A r \in after : q <= r
PeriodClosed(m) ==
    LET e == PeriodEnd(m)
    IN  e <= Len(wire) /\ wire[e].v = 1 /\ wire[e].ok
OpcodeBytes(m) ==
    LET e == PeriodEnd(m)
    IN  Cardinality({n \in (m + 1)..(e - 1) : wire[n].k = "cmd" /\ Len(wire[n].bytes) = 1})

\* The part of the wire contract that does not count opcodes
WireLevels ==
    /\ \A n \in 1..Len(wire) :
         /\ IsBusWrite(n) => LastSet("cs", 0, n)
         /\ wire[n].k = "cmd" => (LastSet("dc", 0, n) /\ Len(wire[n].bytes) = 1)
         /\ wire[n].k = "data" => LastSet("dc", 1, n)
    /\ (pc = "returned" /\ res = OkRes /\ wire # <<>>) => cs = 1

\* C8 as stated: over any sequence of public operations, also those that abort on
\* a failure, every byte on the bus is written while chip-select was last set
\* low, opcode bytes only while data/command-select was last set low and exactly
\* one opcode byte per chip-select-low period, argument and pixel bytes only
\* while data/command-select was last set high, and chip-select is high after
\* every operation that returns Ok.
C8_AsStated ==
    /\ WireLevels
    /\ \A m \in PeriodStarts : OpcodeBytes(m) = 1

\* C8 as amended: the same, with exactly one opcode byte in every
\* chip-select-low period that ends with chip-select set high (every period of
\* an operation that returns Ok), and at most one in a period that a failure
\* cuts short.
C8_WireContract ==
    /\ WireLevels
    /\ \A m \in PeriodStarts :
         /\ OpcodeBytes(m) <= 1
         /\ PeriodClosed(m) => OpcodeBytes(m) = 1
         /\ (pc = "returned" /\ res = OkRes) => PeriodClosed(m)

C8_Witness ==
    /\ Returned("draw_iter")
    /\ res.tag = "OutputPin"
    /\ Len(op.data) = 2
    /\ Len(wire) = 19
    /\ cs = 0

\* C9: a draw_raw(x0,y0,x1,y1,data) that succeeds issues exactly three
\* chip-select-framed transactions, ColumnAddressSet (0x2a), PageAddressSet
\* (0x2b), then one MemoryWrite (0x2c) whose payload is the input buffer byte for
\* byte; there is no length check: a buffer of any length is sent unchanged, and
\* the call returns Ok whenever the transport does not fail.
C9_DrawRawFraming ==
    Returned("draw_raw") =>
        /\ op.f = 0 => res = OkRes
        /\ res = OkRes =>
             wire = Frame(42, <<Hi(op.win[1]), Lo(op.win[1]), Hi(op.win[3]), Lo(op.win[3])>>)
                    \o Frame(43, <<Hi(op.win[2]), Lo(op.win[2]), Hi(op.win[4]), Lo(op.win[4])>>)
                    \o Frame(44, op.data)

C9_Witness ==
    /\ Returned("draw_raw")
    /\ res = OkRes
    /\ Len(op.data) = 1
    /\ op.win[1] = 0
    /\ op.win[3] = 258
    /\ Len(wire) = 18

\* C10: set_window(x0,y0,x1,y1) issues exactly two commands, ColumnAddressSet
\* then PageAddressSet, each with exactly 4 argument bytes, [x0 high, x0 low,
\* x1 high, x1 low] and [y0 high, y0 low, y1 high, y1 low]; the two bytes of a
\* coordinate recombine to it (hi*256+lo); no coordinate is validated against
\* width/height or against x0 <= x1, y0 <= y1.
C10_SetWindow ==
    Returned("set_window") =>
        /\ op.f = 0 => res = OkRes
        /\ res = OkRes =>
             /\ Len(wire) = 12
             /\ SubSeq(wire, 1, 4) = SubSeq(Frame(42, <<>>), 1, 4)
             /\ SubSeq(wire, 7, 10) = SubSeq(Frame(43, <<>>), 1, 4)
             /\ wire[6] = Did("cs", 1, <<>>) /\ wire[12] = Did("cs", 1, <<>>)
             /\ wire[5].k = "data" /\ wire[5].ok /\ Len(wire[5].bytes) = 4
             /\ wire[11].k = "data" /\ wire[11].ok /\ Len(wire[11].bytes) = 4
             /\ \A b \in 1..4 : wire[5].bytes[b] \in 0..255 /\ wire[11].bytes[b] \in 0..255
             /\ wire[5].bytes[1] * 256 + wire[5].bytes[2] = op.win[1]
             /\ wire[5].bytes[3] * 256 + wire[5].bytes[4] = op.win[3]
             /\ wire[11].bytes[1] * 256 + wire[11].bytes[2] = op.win[2]
             /\ wire[11].bytes[3] * 256 + wire[11].bytes[4] = op.win[4]

C10_Witness ==
    /\ Returned("set_window")
    /\ res = OkRes
    /\ op.win[1] = 65535 /\ op.win[3] = 0
    /\ op.win[2] = 65535 /\ op.win[4] = 258
    /\ op.win[1] > op.win[3] /\ op.win[2] > op.win[4]
    /\ op.win[1] >= width /\ op.win[2] >= height
    /\ Len(wire) = 12

----------------------------------------------------------------------------
(* The claims about the public operations (checked under Spec and SpecOps) *)

\* What the chip sees of a sequence of calls: each pin call, and each byte of
\* each bus write with the kind of the write, in order
RECURSIVE Atoms(_)
Atoms(log) ==
    IF log = <<>> THEN <<>>
    ELSE LET ev == Head(log)
         IN  (IF ev.k \in {"cmd", "data"}
              THEN [n \in 1..Len(ev.bytes) |-> <<ev.k, ev.bytes[n], ev.ok>>]
              ELSE << <<ev.k, ev.v, ev.ok>> >>)
             \o Atoms(Tail(log))

\* The buffer made of each colour's high byte followed by its low byte
RECURSIVE ColourBytes(_)
ColourBytes(cols) ==
    IF cols = <<>> THEN <<>>
    ELSE <<Hi(Head(cols)), Lo(Head(cols))>> \o ColourBytes(Tail(cols))

\* The calls of draw_raw on the window and buffer, on a transport that does not fail
DrawRawWire(win, data) ==
    Exec(Ctx(<<>>, 0, "-"), draw_raw(win[1], win[2], win[3], win[4], data)).log

\* C11: draw_iter is equivalent on the wire to draw_raw: for every window and
\* every finite sequence of 16-bit colours, a draw_iter on a transport that
\* does not fail returns Ok and makes the same pin calls and writes the same
\* bytes, in the same order, as draw_raw with the same window and the buffer
\* of each colour's high byte then low byte: the window is set first, then one
\* MemoryWrite opcode and the pixel bytes inside one chip-select-low period.
C11_DrawIterAsDrawRaw ==
    (Returned("draw_iter") /\ op.f = 0) =>
        /\ res = OkRes
        /\ Atoms(wire) = Atoms(DrawRawWire(op.win, ColourBytes(op.data)))
        /\ SubSeq(wire, 1, 12) =
               Frame(42, <<Hi(op.win[1]), Lo(op.win[1]), Hi(op.win[3]), Lo(op.win[3])>>)
               \o Frame(43, <<Hi(op.win[2]), Lo(op.win[2]), Hi(op.win[4]), Lo(op.win[4])>>)
        /\ SubSeq(wire, 13, 16) = SubSeq(Frame(44, <<>>), 1, 4)
        /\ Len(wire) = 17 + Len(op.data)
        /\ \A n \in 1..Len(op.data) :
              wire[16 + n] = Did("data", 0, <<Hi(op.data[n]), Lo(op.data[n])>>)
        /\ wire[Len(wire)] = Did("cs", 1, <<>>)

C11_Witness ==
    /\ Returned("draw_iter")
    /\ op.f = 0
    /\ op.data = <<4862, 63488>>
    /\ op.win = <<258, 1, 0, 511>>
    /\ Len(wire) = 19

\* The documented register byte and (width, height) of an orientation
DocByte(mode) ==
    CASE mode = "Portrait" -> 72            \* 0x48
      [] mode = "Landscape" -> 40           \* 0x28
      [] mode = "PortraitFlipped" -> 136    \* 0x88
      [] mode = "LandscapeFlipped" -> 232   \* 0xe8

DocSize(mode) ==
    IF mode \in {"Portrait", "PortraitFlipped"} THEN <<240, 320>> ELSE <<320, 240>>

OrientationSet ==
    /\ (Returned("set_orientation") /\ res = OkRes) =>
          /\ wire = Frame(54, <<DocByte(op.mode)>>)
          /\ <<width, height>> = DocSize(op.mode)
    /\ (Returned("new") /\ res = OkRes) => <<width, height>> = <<240, 320>>
    /\ Returned("width") => op.win = <<width>>
    /\ Returned("height") => op.win = <<height>>

\* A set_orientation(m) on a handle that already has the size of m
OrientationRepeated ==
    (pc = "idle" /\ op'.name = "set_orientation" /\ <<width, height>> = DocSize(op'.mode))
    => <<width', height'>> = <<width, height>>

\* C12: for each of the four orientations, a successful set_orientation issues
\* exactly one command, MemoryAccessControl (0x36), with one fixed argument byte
\* (Portrait 0x48, Landscape 0x28, PortraitFlipped 0x88, LandscapeFlipped 0xE8),
\* and afterwards width()/height() return 240/320 for Portrait and
\* PortraitFlipped and 320/240 for Landscape and LandscapeFlipped; a freshly
\* constructed handle reports 240/320; the result depends only on the requested
\* mode, so repeating the same call leaves the same width/height.
C12_SetOrientation == []OrientationSet /\ [][OrientationRepeated]_vars

C12_Witness ==
    /\ Returned("set_orientation")
    /\ res = OkRes
    /\ op.mode = "LandscapeFlipped"
    /\ <<width, height>> = <<320, 240>>
    /\ wire[5].bytes = <<232>>

\* The opcodes of the 18 configuration commands, in the order of the script
ScriptOpcodes ==
    <<203, 207, 232, 234, 237, 247, 192, 193, 197, 199, 54, 58, 177, 182, 242, 38, 224, 225>>

\* A call without the bytes of an argument write: the pin and its level, the
\* opcode, the delay and its length
Step(ev) ==
    IF ev.k = "cmd" THEN <<"cmd", ev.bytes>>
    ELSE IF ev.k = "data" THEN <<"data">>
    ELSE <<ev.k, ev.v>>

Steps(log) == [n \in 1..Len(log) |-> Step(log[n])]

\* The steps of one command
CommandSteps(opcode) ==
    << <<"cs", 0>>, <<"dc", 0>>, <<"cmd", <<opcode>> >>, <<"dc", 1>>, <<"data">>, <<"cs", 1>> >>

RECURSIVE ScriptSteps(_)
ScriptSteps(opcodes) ==
    IF opcodes = <<>> THEN <<>>
    ELSE CommandSteps(Head(opcodes)) \o ScriptSteps(Tail(opcodes))

\* The order of events of an initialization
InitSteps ==
    << <<"reset", 1>>, <<"delay", 200>>, <<"reset", 0>>, <<"delay", 200>>,
       <<"reset", 1>>, <<"delay", 200>> >>
    \o CommandSteps(1) \o << <<"delay", 200>> >>
    \o ScriptSteps(ScriptOpcodes)
    \o CommandSteps(17) \o << <<"delay", 120>> >>
    \o CommandSteps(41)

AllOk(log) == \A n \in 1..Len(log) : log[n].ok

\* C13: a successful new() produces this event order: reset high, 200 ms delay,
\* reset low, 200 ms delay, reset high, 200 ms delay, all before any
\* chip-select, data/command-select or bus activity; then SoftwareReset
\* followed by a 200 ms delay; then the 18 configuration commands in the order
\* of the script; then SleepOut, a 120 ms delay, and DisplayOn as the last
\* command; no other delay and no other command occurs.
C13_InitOrder ==
    (Returned("new") /\ res = OkRes) =>
        /\ Steps(wire) = InitSteps
        /\ AllOk(wire)
        /\ \A n \in 1..6 : wire[n].k \in {"reset", "delay"}
        /\ \A n \in 7..Len(wire) : wire[n].k # "reset"
        /\ Cardinality({n \in 1..Len(wire) : wire[n].k = "delay"}) = 5
        /\ Cardinality({n \in 1..Len(wire) : wire[n].k = "cmd"}) = 21

C13_Witness ==
    /\ Returned("new")
    /\ res = OkRes
    /\ Len(wire) = 134
    /\ wire[128] = Did("delay", 120, <<>>)
    /\ wire[131] = Did("cmd", 0, <<41>>)

\* The calls on a pin or the bus among the calls of log
HwCalls(log) == Cardinality({n \in 1..Len(log) : log[n].k # "delay"})

\* The last call of log failed, and it is the only one that did
FailedLast(log) ==
    /\ log # <<>>
    /\ ~log[Len(log)].ok
    /\ \A n \in 1..(Len(log) - 1) : log[n].ok

\* The error a failing call of log is reported as
ErrorOf(log, e) ==
    [tag |-> IF log[Len(log)].k \in {"cs", "dc", "reset"} THEN "OutputPin" ELSE "Spi", e |-> e]

InitFailure ==
    op.name = "new" =>
        /\ (op.f = 0) <=> (res = OkRes)
        /\ (op.f = 0) <=> (pc = "returned")
        /\ op.f # 0 =>
             /\ pc = "failed"
             /\ FailedLast(wire)
             /\ HwCalls(wire) = op.f
             /\ res = ErrorOf(wire, op.err)
             /\ Steps(wire) = SubSeq(InitSteps, 1, Len(wire))

\* C14: if any single pin or bus operation fails during new() (in the hard
\* reset or in any of the 21 commands), construction returns exactly that
\* error (first failure wins), no handle is returned (nothing can be called
\* afterwards), and no later command, pin change or delay of the script is
\* performed after the failing step.
C14_InitFailure == []InitFailure /\ [][pc # "failed"]_vars

C14_Witness ==
    /\ pc = "failed"
    /\ op.f = 38
    /\ res = [tag |-> "Spi", e |-> "e2"]
    /\ Len(wire) = 42
    /\ wire[40] = Did("cmd", 0, <<237>>)

\* The calls of each operation when nothing fails
WindowFrames(win) ==
    Frame(42, <<Hi(win[1]), Lo(win[1]), Hi(win[3]), Lo(win[3])>>)
    \o Frame(43, <<Hi(win[2]), Lo(win[2]), Hi(win[4]), Lo(win[4])>>)

IterFrame(cols) ==
    SubSeq(Frame(44, <<>>), 1, 4)
    \o [n \in 1..Len(cols) |-> Did("data", 0, <<Hi(cols[n]), Lo(cols[n])>>)]
    \o <<Did("cs", 1, <<>>)>>

FullWire ==
    CASE op.name = "command" -> Frame(op.win[1], op.data)
      [] op.name = "write_raw" -> Frame(44, op.data)
      [] op.name = "write_iter" -> IterFrame(op.data)
      [] op.name = "set_window" -> WindowFrames(op.win)
      [] op.name = "draw_raw" -> WindowFrames(op.win) \o Frame(44, op.data)
      [] op.name = "draw_iter" -> WindowFrames(op.win) \o IterFrame(op.data)
      [] op.name = "set_orientation" -> Frame(54, <<DocByte(op.mode)>>)

ResultOps ==
    {"command", "write_raw", "write_iter", "set_window", "draw_raw", "draw_iter",
     "set_orientation"}

\* The calls of log, each taken as having succeeded
Attempted(log) == [n \in 1..Len(log) |-> [log[n] EXCEPT !.ok = TRUE]]

\* C15: in command, write_raw and write_iter, and so in set_window, draw_raw,
\* draw_iter and set_orientation, when a step fails no later pin or bus step
\* of that operation is performed (chip-select is not set high again, and a
\* draw_raw or draw_iter whose window set fails never sends MemoryWrite), and
\* the returned error is Error::OutputPin with the pin's error when a pin step
\* failed and Error::Spi with the bus's error when a bus write failed; the
\* failing step is made once (no retry).
C15_AbortOnFirstFailure ==
    (pc = "returned" /\ op.name \in ResultOps) =>
        /\ (res = OkRes) <=> (op.f = 0 \/ op.f > Len(FullWire))
        /\ res = OkRes => wire = FullWire
        /\ res # OkRes =>
             /\ FailedLast(wire)
             /\ Len(wire) = op.f
             /\ Attempted(wire) = SubSeq(FullWire, 1, op.f)
             /\ res = ErrorOf(wire, op.err)
             /\ res.tag \in {"OutputPin", "Spi"}
             /\ ~(wire[op.f].k = "cs" /\ wire[op.f].v = 0) => cs = 0
             /\ (op.name \in {"draw_raw", "draw_iter"} /\ op.f <= 12) =>
                    \A n \in 1..Len(wire) : wire[n].bytes # <<44>>

C15_Witness ==
    /\ Returned("draw_raw")
    /\ op.f = 11
    /\ res = [tag |-> "Spi", e |-> "e1"]
    /\ Len(wire) = 11
    /\ cs = 0

\* The draw_raw call that a draw made last
LastCall == calls[Len(calls)]

DrawPanics ==
    /\ pc = "panicked" =>
         /\ op.name = "draw"
         /\ res.tag = "Panic"
         /\ res.e \in {"OutputPin", "Spi"}
         /\ FailedLast(wire)
         /\ HwCalls(wire) = op.f
         /\ calls # <<>>
         /\ 18 * (Len(calls) - 1) < Len(wire) /\ Len(wire) <= 18 * Len(calls)
         /\ LastCall.data = SubSeq(row, 1, i)
         /\ LastCall.x0 = startx /\ LastCall.x1 = endx
    /\ (op.name = "draw" /\ ~AllOk(wire)) => pc = "panicked"
    /\ DrawReturned => (res = OkRes /\ AllOk(wire))

\* C16: a transport or pin failure during any flush inside draw is fatal to the
\* whole draw call: draw does not return normally (it panics), the remaining
\* pixels of the stream are not consumed into further writes, and no pin or bus
\* operation is issued after the failing one; draw never continues after a
\* failed write.
C16_DrawPanics == []DrawPanics /\ [][pc # "panicked"]_vars

C16_Witness ==
    /\ pc = "panicked"
    /\ res = [tag |-> "Panic", e |-> "Spi"]
    /\ k = 2
    /\ Len(pixels) = 3
    /\ Len(calls) = 1
    /\ i = 2

\* The run-buffer invariant at the head of the loop and after the loop
RunBufferAtItems ==
    /\ pc # "panicked"
    /\ i % 2 = 0
    /\ 0 <= i /\ i <= 64
    /\ i > 0 => (i = 2 * (endx - startx + 1) /\ startx <= endx)
    /\ \A c \in 1..Len(calls) :
         /\ calls[c].y0 = calls[c].y1
         /\ Len(calls[c].data) =
               2 * (calls[c].x1 - calls[c].x0 + 1) * (calls[c].y1 - calls[c].y0 + 1)
         /\ 2 <= Len(calls[c].data) /\ Len(calls[c].data) <= 64

\* The loop is about to take an on-screen pixel
TakesPixel == pc = "draw" /\ k < Len(pixels) /\ on_screen(pixels[k + 1], dwidth, dheight)

\* The byte count between the two appends of that pixel
MidPixel == first_byte(DrawState, pixels[k + 1])

\* C17 as stated: at every point of a draw call, for every pixel stream, the
\* byte count i is even and 0 <= i <= 64, and whenever i > 0 it equals
\* 2*(endx - startx + 1) with startx <= endx; hence every draw_raw emitted by
\* draw has y0 = y1 and a payload of exactly 2*(x1-x0+1)*(y1-y0+1) bytes,
\* between 2 and 64.  The points of a call include the one between the two
\* appends of a pixel's colour bytes.
C17_AsStated ==
    /\ RunBufferAtItems
    /\ TakesPixel =>
         /\ ~MidPixel.panic
         /\ MidPixel.i % 2 = 0
         /\ 0 <= MidPixel.i /\ MidPixel.i <= 64

\* C17 as amended: the invariant holds at the head of every iteration of the
\* loop, at every draw_raw call and when draw returns; between the two appends
\* of one pixel i is odd, 1 <= i <= 63, so that the second append is inside
\* the buffer as well (no index panic).
C17_RunBuffer ==
    /\ RunBufferAtItems
    /\ TakesPixel =>
         /\ ~MidPixel.panic
         /\ MidPixel.i % 2 = 1
         /\ 1 <= MidPixel.i /\ MidPixel.i <= 63
         /\ MidPixel.i = 2 * (pixels[k + 1].x - MidPixel.startx) + 1

C17_Witness ==
    /\ pc = "draw"
    /\ i = 64
    /\ k = 64
    /\ Len(pixels) = 66
    /\ Len(calls) = 1
    /\ startx = 32
    /\ endx = 63
    /\ TakesPixel
    /\ MidPixel.i = 1

\* The positions of the opcode writes on the wire: the command trace
CommandAt == {n \in 1..Len(wire) : wire[n].k = "cmd"}

\* C18: in the command trace of any sequence of new, set_orientation, draw_raw,
\* draw_iter and draw calls, every MemoryWrite command is immediately preceded
\* by a PageAddressSet command, itself immediately preceded by a
\* ColumnAddressSet command, all issued by the same call with no other command
\* in between: the two window commands were completed (chip-select high again)
\* just before the chip-select-low period of the MemoryWrite.
C18_WindowBeforeWrite ==
    \A n \in CommandAt :
        wire[n].bytes = <<44>> =>
            /\ n >= 15
            /\ wire[n - 12] = Did("cmd", 0, <<42>>)
            /\ wire[n - 6] = Did("cmd", 0, <<43>>)
            /\ CommandAt \cap ((n - 12)..n) = {n - 12, n - 6, n}
            /\ \A m \in (n - 14)..(n - 1) : wire[m].ok
            /\ Len(wire[n - 10].bytes) = 4 /\ Len(wire[n - 4].bytes) = 4
            /\ wire[n - 9] = Did("cs", 1, <<>>) /\ wire[n - 3] = Did("cs", 1, <<>>)
            /\ op.name \in {"draw_raw", "draw_iter", "draw"}

C18_Witness ==
    /\ DrawReturned
    /\ Len(calls) = 2
    /\ {n \in CommandAt : wire[n].bytes = <<44>>} = {15, 33}

Sizes == {<<240, 320>>, <<320, 240>>}

\* A step of a handle that is not a step of set_orientation
NotSetOrientation == pc # "start" /\ op'.name # "set_orientation"

\* C19: after new() and any sequence of operations, (width, height) is always
\* (240,320) or (320,240); draw_raw, draw_iter, draw, set_window, width() and
\* height() leave width and height unchanged whether they succeed or fail, and
\* only set_orientation assigns them.
C19_SizeFrame ==
    /\ [](pc # "start" => <<width, height>> \in Sizes)
    /\ [][NotSetOrientation => <<width', height'>> = <<width, height>>]_vars

C19_Witness ==
    /\ Returned("draw_raw")
    /\ res # OkRes
    /\ <<width, height>> = <<320, 240>>

\* C20: set_orientation assigns width/height before it issues the
\* MemoryAccessControl command and does not roll them back: when the command
\* fails and set_orientation returns an error, width()/height() already return
\* the dimensions of the requested orientation, and the clipping bounds of a
\* later draw are those dimensions even though the chip may not have received
\* the register byte.
C20_NoRollback ==
    /\ Returned("set_orientation") => <<width, height>> = DocSize(op.mode)
    /\ (Returned("set_orientation") /\ res # OkRes) =>
          /\ FailedLast(wire)
          /\ Attempted(wire) = SubSeq(Frame(54, <<DocByte(op.mode)>>), 1, op.f)
    /\ Returned("width") => op.win = <<width>>
    /\ Returned("height") => op.win = <<height>>
    /\ op.name = "draw" => (dwidth = width /\ dheight = height)
    /\ DrawReturned => calls = draw(Visible(pixels), width, height).calls

\* A draw on a handle whose set_orientation to a landscape mode failed before the
\* chip received the byte: the column 240 is drawn
C20_Witness ==
    /\ DrawReturned
    /\ <<width, height>> = <<320, 240>>
    /\ chipw = 240
    /\ \E c \in 1..Len(calls) : calls[c].x1 = 240

====
